---- MODULE Spec2Model ----
(***************************************************************************)
(* Model of the yars scripts:                                              *)
(*   - example/cli.py : RedditScraper (retry executor, backup, load,       *)
(*     dedup merge, save) driven by main();                                *)
(*   - scripts/post_db.py : insert_post / process_json_files, the loader   *)
(*     of the JSON store into the posts and comments tables.               *)
(***************************************************************************)
EXTENDS Integers, Sequences, FiniteSets, TLC

\* ------------------------------------------------------------------ bounds
MaxRuns == 2        \* invocations of main() on the same output file
MaxPosts == 2       \* length of the candidate list a fetch returns
MaxRetries == 3     \* largest configured --retries
MaxNodes == 3       \* comments in an enumerated forest of a stored post
MaxStorePosts == 2  \* posts in the JSON store handed to the loader
MaxLoads == 2       \* times process_json_files reads the store

Permalinks == {"/r/a/1", "/r/a/2"}

\* ------------------------------------------------------------ small helpers
SeqsUpTo(S, n) == UNION {[1..k -> S] : k \in 0..n}

Range(s) == {s[k] : k \in 1..Len(s)}

\* ======================================================================
\*  example/cli.py
\* ======================================================================
VARIABLES
    file,               \* the output file on disk
    backup_file,        \* its sibling <name>.backup<suffix>
    pc,                 \* position of the process in main()/comprehensive_scrape
    run,                \* number of main() invocations so far
    config,             \* ScrapingConfig of the running process
    scraped_count,
    error_count,
    existing_data,
    existing_permalinks,
    posts,
    new_data,
    i,                  \* loop index of "for i, post in enumerate(posts, 1)"
    func,               \* the operation wrapped by the running _safe_execute
    attempt,            \* loop variable of _safe_execute
    calls,              \* invocations of func by the running _safe_execute
    backoff,            \* sleeps of the running _safe_execute, in order
    result,             \* value returned by _safe_execute
    exit_code,
    raised,             \* exception that reached main(), or "none"
    raised_at,          \* pc at which it was raised
    file_at_start,      \* the output file when the run started
    backup_at_start,    \* the backup file when the run started
    no_result,          \* _safe_execute calls of this run that returned None
    detail_calls,       \* permalinks passed to scrape_post_details in this run
    outcomes,           \* per candidate: "skip", "ok" or "fail"
    prev                \* candidate list and outcomes of the previous run

cliVars == <<file, backup_file, pc, run, config, scraped_count, error_count,
             existing_data, existing_permalinks, posts, new_data, i, func,
             attempt, calls, backoff, result, exit_code, raised, raised_at,
                   file_at_start,
                   backup_at_start, no_result, detail_calls,
             outcomes, prev>>

VARIABLES
    json_file,          \* the JSON file process_json_files reads
    forest,             \* the comment forest carried by the posts of the file
    posts_tbl,          \* rows of table posts, in insert order
    comments_tbl,       \* rows of table comments, in insert order
    db_pc,              \* position of the loader in process_json_files
    idx,                \* position of "for post in data"
    loads,              \* number of process_json_files runs so far
    first_load          \* both tables as the first load left them

dbVars == <<json_file, forest, posts_tbl, comments_tbl, db_pc, idx, loads,
            first_load>>

\* A file is absent, holds text json.load rejects, holds bytes that are not
\* UTF-8 text (a write cut inside a multi-byte character), or holds an array
\* of Post records.
Absent == [kind |-> "absent", recs |-> <<>>]
Invalid == [kind |-> "invalid", recs |-> <<>>]
Undecodable == [kind |-> "undecodable", recs |-> <<>>]
Data(recs) == [kind |-> "data", recs |-> recs]

\* Values a wrapped operation hands back through _safe_execute.
None == [kind |-> "None", val |-> <<>>]
PostList(ps) == [kind |-> "list", val |-> ps]
Details == [kind |-> "dict", val |-> <<"body">>]
EmptyDetails == [kind |-> "dict", val |-> <<>>]

\* Python truthiness of such a value: None, [] and {} are falsy.
Truthy(v) == v.kind # "None" /\ v.val # <<>>

\* Values of --delay (rate_limit_delay).
Delays == {1, 2}

NoConfig == [max_retries |-> 0, backup_enabled |-> FALSE, rate_limit_delay |-> 1]
Configs == [max_retries : 0..MaxRetries, backup_enabled : BOOLEAN,
            rate_limit_delay : Delays]

NoPrev == [posts |-> <<>>, outcomes |-> <<>>, saved |-> FALSE]

\* _create_post_record: the permalink of the candidate, stamped with the time
\* of the scrape (the run number stands for the clock).
_create_post_record(post, now) == [permalink |-> post, scraped_at |-> now]

PermalinksOf(recs) == {recs[k].permalink : k \in 1..Len(recs)}

\* _load_existing_data when it returns: the stored array, or [] when the
\* file is absent or not valid JSON.
_load_existing_data(f) == IF f.kind = "data" THEN f.recs ELSE <<>>

InitFiles == {Absent, Data(<<_create_post_record("/r/a/1", 0)>>)}

\* Output files a single run may find: none, unreadable ones, and the stores
\* of pairwise distinct permalinks.
RunFiles ==
    {Absent, Invalid, Undecodable} \cup
    {Data([k \in 1..Len(ps) |-> _create_post_record(ps[k], 0)]) :
        ps \in {q \in SeqsUpTo(Permalinks, Cardinality(Permalinks)) :
                   \A a, b \in 1..Len(q) : a # b => q[a] # q[b]}}

InitCli ==
    /\ backup_file = Absent
    /\ pc = "idle"
    /\ run = 0
    /\ config = NoConfig
    /\ scraped_count = 0
    /\ error_count = 0
    /\ existing_data = <<>>
    /\ existing_permalinks = {}
    /\ posts = <<>>
    /\ new_data = <<>>
    /\ i = 0
    /\ func = "none"
    /\ attempt = 0
    /\ calls = 0
    /\ backoff = <<>>
    /\ result = None
    /\ exit_code = 0
    /\ raised = "none"
    /\ raised_at = "none"
    /\ file_at_start = Absent
    /\ backup_at_start = Absent
    /\ no_result = 0
    /\ detail_calls = {}
    /\ outcomes = <<>>
    /\ prev = NoPrev

\* main() up to "scraper = RedditScraper(config)": a new process with its
\* configuration and a fresh RedditScraper.
NewProcess ==
    /\ pc \in {"idle", "exited"}
    /\ run < MaxRuns
    /\ \E c \in Configs : config' = c
    /\ run' = run + 1
    /\ scraped_count' = 0
    /\ error_count' = 0
    /\ existing_data' = <<>>
    /\ existing_permalinks' = {}
    /\ posts' = <<>>
    /\ new_data' = <<>>
    /\ i' = 0
    /\ attempt' = 0
    /\ calls' = 0
    /\ backoff' = <<>>
    /\ result' = None
    /\ exit_code' = 0
    /\ raised' = "none"
    /\ raised_at' = "none"
    /\ file_at_start' = file
    /\ backup_at_start' = backup_file
    /\ no_result' = 0
    /\ detail_calls' = {}
    /\ outcomes' = <<>>
    /\ prev' = IF pc = "exited" /\ exit_code = 0
                THEN [posts |-> posts, outcomes |-> outcomes, saved |-> TRUE]
                ELSE NoPrev
    /\ UNCHANGED <<file, backup_file>>

\* main() with --action scrape: comprehensive_scrape starts.
Main ==
    /\ UNCHANGED dbVars
    /\ NewProcess
    /\ pc' = "backup"
    /\ func' = "none"

\* The same, for the first process to run on the output file.
MainOnce ==
    /\ run = 0
    /\ Main

\* main() with --action display: display_demo_data starts and
\* search_reddit_posts enters _safe_execute(_search).
MainDisplay ==
    /\ UNCHANGED dbVars
    /\ NewProcess
    /\ pc' = "exec"
    /\ func' = "search"

\* display_demo_data: the wrapped call that follows each wrapped call.
DemoNext(f) ==
    CASE f = "search" -> "demo_detail"
      [] f = "demo_detail" -> "user"
      [] f = "user" -> "demo_fetch"
      [] OTHER -> "none"

\* display_demo_data after a wrapped call returned: scrape_post_details of
\* the demo permalink, scrape_user_data and fetch_subreddit_posts enter
\* _safe_execute in turn; after the last one download_post_images runs when
\* posts were fetched (it catches its own failures) and main() goes on to
\* the statistics.
DisplayDemoData ==
    /\ UNCHANGED dbVars
    /\ pc = "ret"
    /\ func \in {"search", "demo_detail", "user", "demo_fetch"}
    /\ func' = DemoNext(func)
    /\ pc' = IF func = "demo_fetch" THEN "stats" ELSE "exec"
    /\ attempt' = 0
    /\ calls' = 0
    /\ backoff' = <<>>
    /\ result' = None
    /\ UNCHANGED <<file, backup_file, run, config, scraped_count, error_count,
                   existing_data, existing_permalinks, posts, new_data, i,
                   exit_code, raised, raised_at, file_at_start,
                   backup_at_start, no_result, detail_calls,
                   outcomes, prev>>

\* _backup_existing_file as it would be if a failed rename were raised to the
\* caller rather than logged.
BackupExistingFile_raises ==
    /\ UNCHANGED <<dbVars, backoff>>
    /\ pc = "backup"
    /\ IF config.backup_enabled /\ file.kind # "absent"
       THEN \/ /\ backup_file' = file
               /\ file' = Absent
               /\ pc' = "load"
               /\ UNCHANGED <<exit_code, raised, raised_at>>
            \/ /\ pc' = "exited"
               /\ exit_code' = 1
               /\ raised' = "Exception"
               /\ raised_at' = pc
               /\ UNCHANGED <<file, backup_file>>
       ELSE /\ pc' = "load"
            /\ UNCHANGED <<file, backup_file, exit_code, raised, raised_at>>
    /\ UNCHANGED <<run, config, scraped_count, error_count, existing_data,
                   existing_permalinks, posts, new_data, i, func, attempt,
                   calls, result, file_at_start,
                   backup_at_start, no_result,
                   detail_calls, outcomes, prev>>

\* comprehensive_scrape, "Backup existing data": _backup_existing_file
\* renames the output file to the backup path; a failed rename is logged.
BackupExistingFile ==
    /\ UNCHANGED <<dbVars, backoff>>
    /\ pc = "backup"
    /\ pc' = "load"
    /\ IF config.backup_enabled /\ file.kind # "absent"
       THEN \/ /\ backup_file' = file
               /\ file' = Absent
            \/ UNCHANGED <<file, backup_file>>
       ELSE UNCHANGED <<file, backup_file>>
    /\ UNCHANGED <<run, config, scraped_count, error_count, existing_data,
                   existing_permalinks, posts, new_data, i, func, attempt,
                   calls, result, exit_code, raised, raised_at, file_at_start,
                   backup_at_start, no_result,
                   detail_calls, outcomes, prev>>

\* comprehensive_scrape, "Load existing data": _load_existing_data catches
\* FileNotFoundError and json.JSONDecodeError only, so the UnicodeDecodeError
\* of a file that is not UTF-8 text goes up to main().
LoadExistingData ==
    /\ UNCHANGED <<dbVars, backoff>>
    /\ pc = "load"
    /\ IF file.kind = "undecodable"
       THEN /\ pc' = "exited"
            /\ exit_code' = 1
            /\ raised' = "Exception"
            /\ raised_at' = pc
            /\ UNCHANGED existing_data
       ELSE /\ existing_data' = _load_existing_data(file)
            /\ pc' = "fetch"
            /\ UNCHANGED <<exit_code, raised, raised_at>>
    /\ UNCHANGED <<file, backup_file, run, config, scraped_count, error_count,
                   existing_permalinks, posts, new_data, i, func, attempt,
                   calls, result, file_at_start,
                   backup_at_start, no_result, detail_calls, outcomes, prev>>

\* fetch_subreddit_posts enters _safe_execute(_fetch_posts).
FetchSubredditPosts ==
    /\ UNCHANGED dbVars
    /\ pc = "fetch"
    /\ pc' = "exec"
    /\ func' = "fetch"
    /\ attempt' = 0
    /\ calls' = 0
    /\ backoff' = <<>>
    /\ result' = None
    /\ UNCHANGED <<file, backup_file, run, config, scraped_count, error_count,
                   existing_data, existing_permalinks, posts, new_data, i,
                   exit_code, raised, raised_at, file_at_start,
                   backup_at_start, no_result, detail_calls,
                   outcomes, prev>>

\* What the scraping collaborator can return for the wrapped operation.
Returns(f) ==
    IF f \in {"detail", "demo_detail"} THEN {Details, EmptyDetails}
    ELSE {PostList(ps) : ps \in SeqsUpTo(Permalinks, MaxPosts)}

\* "for attempt in range(self.config.max_retries)": the loop goes on.
InRange_inclusive(a, max_retries) == a <= max_retries

InRange(a, max_retries) == a < max_retries

\* "sleep(self.config.rate_limit_delay * (attempt + 1))".
Sleep_zero_based(delay, a) == delay * a

Sleep(delay, a) == delay * (a + 1)

\* _safe_execute, one pass of the loop body in which func returns.
SafeExecuteReturn ==
    /\ UNCHANGED <<dbVars, backoff>>
    /\ pc = "exec"
    /\ InRange(attempt, config.max_retries)
    /\ calls' = calls + 1
    /\ \E v \in Returns(func) : result' = v
    /\ pc' = "ret"
    /\ UNCHANGED <<file, backup_file, run, config, scraped_count, error_count,
                   existing_data, existing_permalinks, posts, new_data, i,
                   func, attempt, exit_code, raised, raised_at, file_at_start,
                   backup_at_start, no_result,
                   detail_calls, outcomes, prev>>

\* _safe_execute, one pass of the loop body in which func raises: sleep
\* before the next attempt, or count the error after the last one.
SafeExecuteExcept ==
    /\ UNCHANGED dbVars
    /\ pc = "exec"
    /\ InRange(attempt, config.max_retries)
    /\ calls' = calls + 1
    /\ IF attempt < config.max_retries - 1
       THEN /\ backoff' = Append(backoff, Sleep(config.rate_limit_delay, attempt))
            /\ UNCHANGED error_count
       ELSE /\ error_count' = error_count + 1
            /\ UNCHANGED backoff
    /\ attempt' = attempt + 1
    /\ UNCHANGED <<file, backup_file, pc, run, config, scraped_count,
                   existing_data, existing_permalinks, posts, new_data, i,
                   func, result, exit_code, raised, raised_at, file_at_start,
                   backup_at_start, no_result,
                   detail_calls, outcomes, prev>>

\* _safe_execute, the loop is over: return None.
SafeExecuteNone ==
    /\ UNCHANGED <<dbVars, backoff>>
    /\ pc = "exec"
    /\ ~InRange(attempt, config.max_retries)
    /\ result' = None
    /\ no_result' = no_result + 1
    /\ pc' = "ret"
    /\ UNCHANGED <<file, backup_file, run, config, scraped_count, error_count,
                   existing_data, existing_permalinks, posts, new_data, i,
                   func, attempt, calls, exit_code, raised, raised_at,
                   file_at_start, backup_at_start, detail_calls, outcomes, prev>>

\* comprehensive_scrape after "posts = self.fetch_subreddit_posts(...)":
\* return when nothing was fetched, else set up the loop.
AfterFetch ==
    /\ UNCHANGED dbVars
    /\ pc = "ret"
    /\ func = "fetch"
    /\ IF ~Truthy(result)
       THEN /\ pc' = "stats"
            /\ UNCHANGED <<posts, existing_permalinks, i>>
       ELSE /\ posts' = result.val
            /\ existing_permalinks' = PermalinksOf(existing_data)
            /\ i' = 1
            /\ pc' = "loop"
    /\ new_data' = <<>>
    /\ func' = "none"
    /\ attempt' = 0
    /\ calls' = 0
    /\ backoff' = <<>>
    /\ result' = None
    /\ UNCHANGED <<file, backup_file, run, config, scraped_count, error_count,
                   existing_data, exit_code, raised, raised_at, file_at_start,
                   backup_at_start, no_result,
                   detail_calls, outcomes, prev>>

\* Loop body, "Skip if already scraped".
LoopSkip ==
    /\ UNCHANGED <<dbVars, backoff>>
    /\ pc = "loop"
    /\ i <= Len(posts)
    /\ posts[i] \in existing_permalinks
    /\ outcomes' = Append(outcomes, "skip")
    /\ i' = i + 1
    /\ UNCHANGED <<file, backup_file, pc, run, config, scraped_count,
                   error_count, existing_data, existing_permalinks, posts,
                   new_data, func, attempt, calls, result, exit_code,
                   raised, raised_at, file_at_start,
                   backup_at_start, no_result, detail_calls, prev>>

\* Loop body, scrape_post_details(permalink) enters _safe_execute.
ScrapePostDetails ==
    /\ UNCHANGED dbVars
    /\ pc = "loop"
    /\ i <= Len(posts)
    /\ posts[i] \notin existing_permalinks
    /\ detail_calls' = detail_calls \cup {posts[i]}
    /\ pc' = "exec"
    /\ func' = "detail"
    /\ attempt' = 0
    /\ calls' = 0
    /\ backoff' = <<>>
    /\ result' = None
    /\ UNCHANGED <<file, backup_file, run, config, scraped_count, error_count,
                   existing_data, existing_permalinks, posts, new_data, i,
                   exit_code, raised, raised_at, file_at_start,
                   backup_at_start, no_result, outcomes, prev>>

\* Loop body after "post_details = self.scrape_post_details(permalink)".
AfterDetail ==
    /\ UNCHANGED dbVars
    /\ pc = "ret"
    /\ func = "detail"
    /\ IF Truthy(result)
       THEN /\ new_data' = Append(new_data, _create_post_record(posts[i], run))
            /\ scraped_count' = scraped_count + 1
            /\ outcomes' = Append(outcomes, "ok")
       ELSE /\ outcomes' = Append(outcomes, "fail")
            /\ UNCHANGED <<new_data, scraped_count>>
    /\ i' = i + 1
    /\ pc' = "loop"
    /\ func' = "none"
    /\ attempt' = 0
    /\ calls' = 0
    /\ backoff' = <<>>
    /\ result' = None
    /\ UNCHANGED <<file, backup_file, run, config, error_count, existing_data,
                   existing_permalinks, posts, exit_code, raised, raised_at,
                   file_at_start,
                   backup_at_start, no_result, detail_calls, prev>>

\* The loop is over: "all_data = existing_data + new_data", then
\* _save_to_json opens the output file for writing, which truncates it, or
\* fails to open it and raises into main().
all_data_new_first == new_data \o existing_data

all_data == existing_data \o new_data

SaveOpen ==
    /\ UNCHANGED <<dbVars, backoff>>
    /\ pc = "loop"
    /\ i > Len(posts)
    /\ \/ /\ file' = Invalid
          /\ pc' = "dump"
          /\ UNCHANGED <<exit_code, raised, raised_at>>
       \/ /\ pc' = "exited"
          /\ exit_code' = 1
          /\ raised' = "Exception"
          /\ raised_at' = pc
          /\ UNCHANGED file
    /\ UNCHANGED <<backup_file, run, config, scraped_count, error_count,
                   existing_data, existing_permalinks, posts, new_data, i,
                   func, attempt, calls, result,
                   file_at_start,
                   backup_at_start, no_result, detail_calls, outcomes, prev>>

\* _save_to_json, json.dump into the opened file: the whole array is
\* written, or the dump fails part-way and raises into main(), leaving the
\* part written so far (text that is not JSON, possibly cut inside a
\* multi-byte character since ensure_ascii is False).
SaveDump ==
    /\ UNCHANGED <<dbVars, backoff>>
    /\ pc = "dump"
    /\ \/ /\ file' = Data(all_data)
          /\ pc' = "stats"
          /\ UNCHANGED <<exit_code, raised, raised_at>>
       \/ /\ file' \in {Invalid, Undecodable}
          /\ pc' = "exited"
          /\ exit_code' = 1
          /\ raised' = "Exception"
          /\ raised_at' = pc
    /\ UNCHANGED <<backup_file, run, config, scraped_count, error_count,
                   existing_data, existing_permalinks, posts, new_data, i,
                   func, attempt, calls, result,
                   file_at_start,
                   backup_at_start, no_result, detail_calls, outcomes, prev>>

\* main(), "Display statistics", then the process ends normally.
GetStatistics ==
    /\ UNCHANGED <<dbVars, backoff>>
    /\ pc = "stats"
    /\ pc' = "exited"
    /\ exit_code' = 0
    /\ UNCHANGED <<file, backup_file, run, config, scraped_count, error_count,
                   existing_data, existing_permalinks, posts, new_data, i,
                   func, attempt, calls, result, raised, raised_at,
                   file_at_start,
                   backup_at_start, no_result, detail_calls, outcomes, prev>>

\* The process is interrupted (KeyboardInterrupt reaches main, or it is
\* killed): nothing further is written.
Interrupt ==
    /\ UNCHANGED <<dbVars, backoff>>
    /\ pc \notin {"idle", "exited"}
    /\ raised' = "KeyboardInterrupt"
    /\ raised_at' = pc
    /\ pc' = "exited"
    /\ exit_code' = 1
    /\ UNCHANGED <<file, backup_file, run, config, scraped_count, error_count,
                   existing_data, existing_permalinks, posts, new_data, i,
                   func, attempt, calls, result, file_at_start,
                   backup_at_start, no_result, detail_calls,
                   outcomes, prev>>

\* ======================================================================
\*  scripts/post_db.py
\* ======================================================================
NULL == 0

Tombstones == {"[removed]", "[deleted]"}
Bodies == {"text"} \cup Tombstones
Authors == <<"A", "B", "C", "D", "E", "F">>

\* An element of the JSON array that is not an object.
NotADict == "not-a-dict"

\* A comment forest of n comments numbered in pre-order: parent[k] is the
\* comment k replies to (0 for a comment of the post itself), body[k] its
\* body, Authors[k] its author.
RECURSIVE AncestorsOrSelf(_, _)
AncestorsOrSelf(parent, k) ==
    IF k = 0 THEN {} ELSE {k} \cup AncestorsOrSelf(parent, parent[k])

IsPreOrder(parent, n) ==
    \A k \in 1..n : parent[k] = 0 \/ parent[k] \in AncestorsOrSelf(parent, k - 1)

Forests(n) ==
    {[n |-> n, parent |-> p, body |-> b] :
        p \in {q \in [1..n -> 0..(n - 1)] : IsPreOrder(q, n)},
        b \in [1..n -> Bodies]}

EmptyForest == [n |-> 0, parent |-> <<>>, body |-> <<>>]

\* The tree A(removed) -> [B, C(removed) -> [D]].
ScenarioForest ==
    [n |-> 4, parent |-> <<0, 1, 1, 3>>,
     body |-> <<"[removed]", "text", "[removed]", "text">>]

ChildrenOf(f, c) == SelectSeq([k \in 1..f.n |-> k], LAMBDA k : f.parent[k] = c)

\* post.get('comments', []) and comment.get('replies', []).
Comments(f) == ChildrenOf(f, 0)
Replies(f, comment) == ChildrenOf(f, comment)

\* extract of insert_comments: the test that lets a comment be stored.
IsTombstone_removed_only(body) == body = "[removed]"

IsTombstone(body) == body \in {"[removed]", "[deleted]"}

\* insert_post.insert_comments: store the comment, then its replies under
\* the id the insert returned; a tombstone is not stored and its replies are
\* not visited.
RECURSIVE insert_comments(_, _, _, _, _)
RECURSIVE insert_each(_, _, _, _, _)

\* Variant: the replies are stored under parent_id instead of comment_id.
insert_comments_flat(f, post_id, comment, parent_id, tbl) ==
    IF ~IsTombstone(f.body[comment])
    THEN LET comment_id == Len(tbl) + 1
             row == [id |-> comment_id,
                     post_id |-> post_id,
                     author |-> Authors[comment],
                     body |-> f.body[comment],
                     parent_comment_id |-> parent_id]
         IN  insert_each(f, post_id, Replies(f, comment), parent_id,
                         Append(tbl, row))
    ELSE tbl

\* Variant: the replies of a tombstone are visited under its own parent.
insert_comments_reparent(f, post_id, comment, parent_id, tbl) ==
    IF ~IsTombstone(f.body[comment])
    THEN LET comment_id == Len(tbl) + 1
             row == [id |-> comment_id,
                     post_id |-> post_id,
                     author |-> Authors[comment],
                     body |-> f.body[comment],
                     parent_comment_id |-> parent_id]
         IN  insert_each(f, post_id, Replies(f, comment), comment_id,
                         Append(tbl, row))
    ELSE insert_each(f, post_id, Replies(f, comment), parent_id, tbl)

insert_comments(f, post_id, comment, parent_id, tbl) ==
    IF ~IsTombstone(f.body[comment])
    THEN LET comment_id == Len(tbl) + 1
             row == [id |-> comment_id,
                     post_id |-> post_id,
                     author |-> Authors[comment],
                     body |-> f.body[comment],
                     parent_comment_id |-> parent_id]
         IN  insert_each(f, post_id, Replies(f, comment), comment_id,
                         Append(tbl, row))
    ELSE tbl

\* "for reply in ...: insert_comments(reply, comment_id)" and
\* "for comment in ...: insert_comments(comment)".
insert_each(f, post_id, cs, parent_id, tbl) ==
    IF cs = <<>> THEN tbl
    ELSE insert_each(f, post_id, Tail(cs), parent_id,
                     insert_comments(f, post_id, Head(cs), parent_id, tbl))

\* "SELECT id FROM posts WHERE permalink = %s" returned a row.
PostExists_never(tbl, permalink) == FALSE

PostExists(tbl, permalink) == \E k \in 1..Len(tbl) : tbl[k].permalink = permalink

InitDb ==
    /\ \/ /\ json_file \in {Data(d) : d \in
                 SeqsUpTo(Permalinks \cup {NotADict}, MaxStorePosts) \ {<<>>}}
          /\ forest \in UNION {Forests(n) : n \in 0..MaxNodes} \cup {ScenarioForest}
       \/ /\ json_file \in {Absent, Invalid, Data(<<>>)}
          /\ forest = EmptyForest
    /\ posts_tbl = <<>>
    /\ comments_tbl = <<>>
    /\ db_pc = "idle"
    /\ idx = 0
    /\ loads = 0
    /\ first_load = <<>>

InitDbIdle ==
    /\ json_file = Absent
    /\ forest = EmptyForest
    /\ posts_tbl = <<>>
    /\ comments_tbl = <<>>
    /\ db_pc = "idle"
    /\ idx = 0
    /\ loads = 0
    /\ first_load = <<>>

\* process_json_files up to "data = json.load(file)": connect, create the
\* tables if they do not exist, open and parse the file.
ProcessJsonFiles ==
    /\ UNCHANGED cliVars
    /\ db_pc \in {"idle", "closed"}
    /\ loads < MaxLoads
    /\ loads' = loads + 1
    /\ first_load' = IF loads = 1 THEN <<posts_tbl, comments_tbl>> ELSE first_load
    /\ IF json_file.kind = "data"
       THEN db_pc' = "loading" /\ idx' = 1
       ELSE db_pc' = "closed" /\ idx' = 0
    /\ UNCHANGED <<json_file, forest, posts_tbl, comments_tbl>>

\* insert_post(connection, post) for the next post of the file.
InsertPost ==
    /\ UNCHANGED cliVars
    /\ db_pc = "loading"
    /\ idx <= Len(json_file.recs)
    /\ LET post == json_file.recs[idx]
       IN  IF post = NotADict
           THEN UNCHANGED <<posts_tbl, comments_tbl>>
           ELSE IF ~PostExists(posts_tbl, post)
           THEN LET post_id == Len(posts_tbl) + 1
                IN  /\ posts_tbl' = Append(posts_tbl,
                           [id |-> post_id, permalink |-> post])
                    /\ comments_tbl' = insert_each(forest, post_id,
                           Comments(forest), NULL, comments_tbl)
           ELSE UNCHANGED <<posts_tbl, comments_tbl>>
    /\ idx' = idx + 1
    /\ UNCHANGED <<json_file, forest, db_pc, loads, first_load>>

\* process_json_files, "connection.close()".
CloseConnection ==
    /\ UNCHANGED cliVars
    /\ db_pc = "loading"
    /\ idx > Len(json_file.recs)
    /\ db_pc' = "closed"
    /\ UNCHANGED <<json_file, forest, posts_tbl, comments_tbl, idx, loads,
                   first_load>>

vars == <<cliVars, dbVars>>

Init == file \in InitFiles /\ InitCli /\ InitDbIdle


Next ==
    \/ Main
    \/ BackupExistingFile
    \/ LoadExistingData
    \/ FetchSubredditPosts
    \/ SafeExecuteReturn
    \/ SafeExecuteExcept
    \/ SafeExecuteNone
    \/ AfterFetch
    \/ LoopSkip
    \/ ScrapePostDetails
    \/ AfterDetail
    \/ SaveOpen
    \/ SaveDump
    \/ GetStatistics
    \/ Interrupt

Spec == Init /\ [][Next]_vars

InitLoader == file = Absent /\ InitCli /\ InitDb

NextLoader ==
    \/ ProcessJsonFiles
    \/ InsertPost
    \/ CloseConnection

SpecLoader == InitLoader /\ [][NextLoader]_vars

InitRun == file \in RunFiles /\ InitCli /\ InitDbIdle

NextRun ==
    \/ MainOnce
    \/ BackupExistingFile
    \/ LoadExistingData
    \/ FetchSubredditPosts
    \/ SafeExecuteReturn
    \/ SafeExecuteExcept
    \/ SafeExecuteNone
    \/ AfterFetch
    \/ LoopSkip
    \/ ScrapePostDetails
    \/ AfterDetail
    \/ SaveOpen
    \/ SaveDump
    \/ GetStatistics
    \/ Interrupt

SpecRun == InitRun /\ [][NextRun]_vars

NextDemo ==
    \/ MainDisplay
    \/ DisplayDemoData
    \/ SafeExecuteReturn
    \/ SafeExecuteExcept
    \/ SafeExecuteNone
    \/ GetStatistics
    \/ Interrupt

SpecDemo == Init /\ [][NextDemo]_vars

\* ======================================================================
\*  Properties of example/cli.py (checked under Spec)
\* ======================================================================
NoDuplicatePermalinks(recs) ==
    \A a, b \in 1..Len(recs) : a # b => recs[a].permalink # recs[b].permalink

RunCompleted == pc = "exited" /\ exit_code = 0

\* C1: the persisted store never contains two Post records with equal
\* permalink, whatever candidate lists the fetches return.
C1_NoDuplicatePermalinks == NoDuplicatePermalinks(file.recs)

\* C2: every Post record in the output file before a run is still in the
\* output file after the run completes, with backup enabled or disabled.
C2_NeverDeleted ==
    RunCompleted => Range(file_at_start.recs) \subseteq Range(file.recs)

\* Every detail scrape of this run ended as it did in the previous run.
SameOutcomes ==
    /\ Len(outcomes) = Len(prev.outcomes)
    /\ \A j \in 1..Len(outcomes) :
          outcomes[j] # "skip" => prev.outcomes[j] = outcomes[j]

\* C3: a second run on the same output file with the same candidate list and
\* the same detail-scrape outcomes adds no record and the stored record count
\* does not grow.
C3_IdempotentMerge ==
    (RunCompleted /\ prev.saved /\ posts # <<>> /\ posts = prev.posts
        /\ SameOutcomes)
    => (Len(new_data) = 0 /\ Len(file.recs) <= Len(file_at_start.recs))

\* C4: scrape_post_details is never invoked for a permalink that was in the
\* output file when the run started.
C4_NoDetailForKnown ==
    detail_calls \cap PermalinksOf(file_at_start.recs) = {}

\* C5: when _safe_execute returns with no attempt having succeeded, the
\* operation was invoked exactly max_retries times, the value returned is
\* None and no exception of the operation reached main().
C5_RetryBound ==
    /\ (pc = "ret" /\ result = None)
          => (calls = config.max_retries /\ attempt = config.max_retries)
    /\ (pc = "ret" /\ calls < config.max_retries) => result # None
    /\ ~(raised = "Exception" /\ raised_at \in {"exec", "ret"})

C5_Witness ==
    /\ pc = "ret"
    /\ func = "demo_fetch"
    /\ error_count >= 2
    /\ result = None
    /\ config.max_retries = MaxRetries
    /\ calls = MaxRetries

\* C6: when the process is killed between two candidates of the scrape loop,
\* reloading the output file yields the prior records followed by the
\* records of the candidates processed so far.
C6_CrashConsistency ==
    (pc = "exited" /\ raised = "KeyboardInterrupt" /\ raised_at = "loop"
        /\ 2 <= i /\ i <= Len(posts))
    => _load_existing_data(file) = file_at_start.recs \o new_data

\* ======================================================================
\*  Properties of scripts/post_db.py (checked under SpecLoader)
\* ======================================================================
NodeOf(author) == CHOOSE k \in 1..Len(Authors) : Authors[k] = author

\* The comment rows of one post, in insert order.
RowsOf(post_id) == SelectSeq(comments_tbl, LAMBDA r : r.post_id = post_id)

\* C7: no row of the comments table has a body equal to "[removed]" or
\* "[deleted]", whatever the depth of the comment in the tree.
C7_TombstoneExclusion ==
    \A k \in 1..Len(comments_tbl) :
        comments_tbl[k].body \notin {"[removed]", "[deleted]"}

C7_Witness ==
    /\ Len(comments_tbl) >= 2
    /\ \E k \in 1..forest.n :
          /\ forest.body[k] = "[deleted]"
          /\ forest.parent[k] # 0
          /\ \E r \in Range(comments_tbl) : r.author = Authors[forest.parent[k]]
    /\ \E k \in 1..forest.n : forest.body[k] = "[removed]"

\* C8: a stored comment with a non-null parent_comment_id was inserted
\* strictly after the row with that id, which is the stored comment of the
\* same post it replies to; comments of the post itself have a null parent.
C8_ParentBeforeChild ==
    \A k \in 1..Len(comments_tbl) :
        LET c == comments_tbl[k]
            p == forest.parent[NodeOf(c.author)]
        IN  /\ c.id = k
            /\ c.parent_comment_id # NULL =>
                  /\ c.parent_comment_id < c.id
                  /\ comments_tbl[c.parent_comment_id].id = c.parent_comment_id
                  /\ comments_tbl[c.parent_comment_id].post_id = c.post_id
            /\ p = 0 => c.parent_comment_id = NULL
            /\ p # 0 =>
                  /\ c.parent_comment_id # NULL
                  /\ comments_tbl[c.parent_comment_id].author = Authors[p]

C8_Witness ==
    \E k \in 1..Len(comments_tbl) :
        /\ comments_tbl[k].post_id = 2
        /\ comments_tbl[k].parent_comment_id # NULL
        /\ comments_tbl[comments_tbl[k].parent_comment_id].parent_comment_id # NULL

\* The nearest ancestor of comment k that is not a tombstone, 0 if none.
RECURSIVE StoredAncestor(_)
StoredAncestor(k) ==
    LET p == forest.parent[k]
    IN  IF p = 0 THEN 0
        ELSE IF forest.body[p] \notin Tombstones THEN p
        ELSE StoredAncestor(p)

\* C9: a tombstone is skipped but its replies are still visited, and each
\* reply that is not a tombstone is stored under the skipped comment's own
\* parent; the tree A(removed) -> [B, C(removed) -> [D]] yields
\* {B with parent root, D with parent root}.
C9_ReparentOnSkip ==
    \A q \in 1..Len(posts_tbl) :
        /\ \A k \in 1..forest.n :
              forest.body[k] \notin Tombstones =>
                 \E r \in Range(RowsOf(q)) :
                    /\ r.author = Authors[k]
                    /\ IF StoredAncestor(k) = 0
                       THEN r.parent_comment_id = NULL
                       ELSE /\ r.parent_comment_id # NULL
                            /\ comments_tbl[r.parent_comment_id].author
                                  = Authors[StoredAncestor(k)]
        /\ forest = ScenarioForest =>
              {<<r.author, r.parent_comment_id>> : r \in Range(RowsOf(q))}
                 = {<<"B", NULL>>, <<"D", NULL>>}

\* The comments insert_post stores: those with no tombstone on the path from
\* the post down to and including themselves.
Storable(k) ==
    \A a \in AncestorsOrSelf(forest.parent, k) : forest.body[a] \notin Tombstones

\* C9 as amended: a tombstone is skipped and its replies are not visited, so
\* the comments stored for a post are those with no tombstone on their path,
\* each under the comment it replies to; the tree
\* A(removed) -> [B, C(removed) -> [D]] yields no stored comment.
C9_DropSubtree ==
    \A q \in 1..Len(posts_tbl) :
        /\ {r.author : r \in Range(RowsOf(q))}
              = {Authors[k] : k \in {n \in 1..forest.n : Storable(n)}}
        /\ Len(RowsOf(q)) = Cardinality({n \in 1..forest.n : Storable(n)})
        /\ \A r \in Range(RowsOf(q)) :
              LET p == forest.parent[NodeOf(r.author)]
              IN  IF p = 0 THEN r.parent_comment_id = NULL
                  ELSE /\ r.parent_comment_id # NULL
                       /\ comments_tbl[r.parent_comment_id].author = Authors[p]
        /\ forest = ScenarioForest => RowsOf(q) = <<>>

C9_Witness ==
    /\ forest = ScenarioForest
    /\ Len(posts_tbl) = 2
    /\ db_pc = "closed"

\* C10: a post row is inserted only if no row has its permalink, and a
\* second load of the same JSON store leaves both tables as the first load
\* left them.
C10_IdempotentLoad ==
    /\ \A a, b \in 1..Len(posts_tbl) :
          a # b => posts_tbl[a].permalink # posts_tbl[b].permalink
    /\ \A q \in 1..Len(posts_tbl) :
          Len(RowsOf(q)) <= forest.n
    /\ loads >= 2 => <<posts_tbl, comments_tbl>> = first_load

C10_Witness ==
    /\ loads = 2
    /\ db_pc = "closed"
    /\ Len(posts_tbl) = 2
    /\ Len(comments_tbl) >= 4

\* The run got past the fetch of the listing with nothing fetched because the
\* fetch used up its retries, and went on to its normal end.
FetchFailedRun ==
    /\ i = 0
    /\ error_count >= 1
    /\ \/ pc = "stats"
       \/ pc = "exited" /\ raised_at \in {"none", "stats"}

\* C11: when the fetch of the listing fails after its retries, the run adds
\* no record and the process exits with a non-zero code.
C11_FatalFetchExitsNonZero ==
    (FetchFailedRun /\ pc = "exited")
    => (new_data = <<>> /\ exit_code # 0)

\* The records of the candidates whose detail scrape succeeded, in fetch
\* order, among the first n candidates.
RECURSIVE OkRecordsUpTo(_)
OkRecordsUpTo(n) ==
    IF n = 0 THEN <<>>
    ELSE IF outcomes[n] = "ok"
         THEN Append(OkRecordsUpTo(n - 1), _create_post_record(posts[n], run))
         ELSE OkRecordsUpTo(n - 1)

OkRecords == OkRecordsUpTo(Len(outcomes))

\* C12: a candidate whose detail scrape uses up its retries is skipped and
\* the run goes on; the store saved at the end holds the prior records and
\* every new candidate whose detail scrape succeeded.
C12_PerItemIsolation ==
    (RunCompleted /\ i >= 1 /\ error_count >= 1)
    => /\ Len(outcomes) = Len(posts)
       /\ file = Data(file_at_start.recs \o OkRecords)

\* C13: a fault while saving ends the process with exit code 1 and leaves the
\* previously saved file with its previous contents.
C13_FailedSaveKeepsFile ==
    (pc = "exited" /\ raised = "Exception" /\ raised_at \in {"loop", "dump"})
    => /\ exit_code = 1
       /\ file_at_start.kind = "data" => file = file_at_start

\* C14: _load_existing_data returns the empty sequence for an absent or
\* invalid file and the stored sequence otherwise, and raises in no state of
\* the file.
C14_LoadNeverRaises ==
    /\ ~(raised = "Exception" /\ raised_at = "load")
    /\ pc = "fetch" =>
          existing_data = IF file.kind = "data" THEN file.recs ELSE <<>>

\* C15: the saved sequence is the loaded records in their order followed by
\* the new records in fetch order, and a fetched item is among the new
\* records exactly if its permalink was not loaded and its detail scrape
\* succeeded.
C15_MergeOrder ==
    /\ pc = "loop" => new_data = OkRecords
    /\ ((pc = "stats" \/ (pc = "exited" /\ raised_at \in {"none", "stats"}))
           /\ i >= 1)
       => /\ file = Data(existing_data \o OkRecords)
          /\ Len(outcomes) = Len(posts)
          /\ \A j \in 1..Len(posts) :
                (outcomes[j] = "skip") =
                   (posts[j] \in PermalinksOf(existing_data))

C15_Witness ==
    /\ pc = "stats"
    /\ Len(existing_data) = 1
    /\ Len(posts) = 2
    /\ outcomes = <<"ok", "skip">>
    /\ Len(file.recs) = 2

\* The waits of a call with delay d after its first n failed attempts.
LinearBackoff(d, n) == [k \in 1..n |-> d * k]

\* C16: _safe_execute waits rate_limit_delay * k after its k-th failed
\* attempt while attempts remain, and waits neither after the last failed
\* attempt nor after a success.
C16_LinearBackoff ==
    pc \in {"exec", "ret"}
    => backoff = LinearBackoff(config.rate_limit_delay,
                     IF attempt = config.max_retries /\ attempt > 0
                     THEN attempt - 1 ELSE attempt)

C16_Witness ==
    /\ pc = "ret"
    /\ result = None
    /\ config.max_retries = 3
    /\ config.rate_limit_delay = 2
    /\ backoff = <<2, 4>>

\* C17: with backup enabled an existing output file is renamed to the backup
\* before anything is written, and a failed rename is not raised: the run
\* goes on with the files as they would be with backup disabled.
C17_BackupOrdering ==
    /\ ~(raised = "Exception" /\ raised_at = "backup")
    /\ pc \in {"load", "fetch", "exec", "ret", "loop"} =>
          IF config.backup_enabled /\ file_at_start.kind # "absent"
          THEN \/ file = Absent /\ backup_file = file_at_start
               \/ file = file_at_start /\ backup_file = backup_at_start
          ELSE file = file_at_start /\ backup_file = backup_at_start

C17_Witness ==
    /\ pc = "stats"
    /\ config.backup_enabled
    /\ file_at_start.kind = "data"
    /\ Len(file_at_start.recs) = 2
    /\ backup_file = file_at_start
    /\ file.kind = "data"
    /\ i >= 2

\* No _safe_execute call is under way, nor was one cut short by an interrupt.
BetweenCalls == pc # "exec" /\ raised_at # "exec"

\* C18: error_count is the number of _safe_execute calls that returned
\* without a result, whatever max_retries is.
C18_ErrorCounter ==
    BetweenCalls => error_count = no_result

====
